---- MODULE Spec2Model ----
\* Olist analytics dashboard: database acquisition (tools/download_db.py,
\* app/db.py), layered configuration (app/config.py), the cached connection
\* and query executor (app/db.py), and the tab renderer (app/ui.py,
\* olist_dashboard.py).
EXTENDS Integers, Sequences, FiniteSets, TLC

VARIABLES
    env,        \* os.environ: variable name -> value or Unset
    secrets,    \* st.secrets, flattened: "section.key" or "KEY" -> value or Unset
    resolved,   \* what each path/schema resolver returned (NotRun before it ran)
    fs,         \* the disk: path -> Absent or the file's size in bytes
    call,       \* the most recent ensure_db / _ensure_local_db invocation
    verified,   \* some ensure call of this process has returned normally
    con,        \* st.cache_resource of _connect: path -> cached handle
    conLog,     \* what was done to the database engine, in order
    handed,     \* the handles connect_cached has yielded so far
    cache,      \* st.cache_data of run_sql_cached: sql -> stored result
    qlog,       \* run_sql_cached: when each body returned a result; the last call
    now,        \* the clock, in seconds
    db,         \* what the database answers to each query template
    pc,         \* where the running script is ("idle": no run in progress)
    run,        \* the current (or last) run of olist_dashboard.py
    shown,      \* what each chart slot of the page shows in this run
    rfa         \* the current (or last) run_first_available invocation

cfgVars == <<env, secrets>>
diskVars == <<fs, call, verified>>
connVars == <<con, conLog, handed>>
queryVars == <<cache, qlog, now, db>>
uiVars == <<pc, run, shown, rfa>>

vars == <<env, secrets, resolved, fs, call, verified, con, conLog, handed,
          cache, qlog, now, db, pc, run, shown, rfa>>

----------------------------------------------------------------------------
\* Configuration values and Python truthiness

Unset == "<unset>"
NotRun == "<not-run>"
CwdDir == "<cwd>"

EnvKeys == {"DB_PATH", "DB_SCHEMA", "OWNER", "REPO", "TAG", "ASSET", "TOKEN"}

SecretKeys ==
    {"db.path", "db.schema", "db.db_path", "DB_PATH",
     "gh.owner", "gh.repo", "gh.tag", "gh.asset", "gh.token",
     "GH_OWNER", "GH_REPO", "GH_TAG", "GH_ASSET", "GH_TOKEN", "DB_DOWNLOAD_URL"}

\* bool(v) of an optional string: None and "" are falsy
Truthy(v) == v # Unset /\ v # ""

\* Python's `a or b`
PyOr(a, b) == IF Truthy(a) THEN a ELSE b

\* os.getenv(k) / os.environ.get(k)
GetEnv(k) == env[k]

\* st.secrets.get(k) and _SECRETS.get(section, {}).get(key)
SecretsGet(k) == secrets[k]

\* dict.get(k, d): the default only replaces a missing key
GetOrDefault(v, d) == IF v = Unset THEN d ELSE v

\* str.upper() on the keys _get_secret is called with
Upper(key) ==
    CASE key = "db_path" -> "DB_PATH"
      [] key = "owner" -> "OWNER"
      [] key = "repo" -> "REPO"
      [] key = "tag" -> "TAG"
      [] key = "asset" -> "ASSET"
      [] key = "token" -> "TOKEN"

----------------------------------------------------------------------------
\* The three path resolvers and the schema resolver

\* app/config.py: env, then secrets["db"]["path"], then the literal
DEFAULT_DUCKDB_PATH ==
    PyOr(PyOr(GetEnv("DB_PATH"), SecretsGet("db.path")), "olist.duckdb")

DEFAULT_SCHEMA ==
    PyOr(PyOr(GetEnv("DB_SCHEMA"), SecretsGet("db.schema")), "analytics_marts")

\* app/db.py: top-level secret DB_PATH, then env, then the argument
_resolve_db_path(default_path) ==
    PyOr(PyOr(SecretsGet("DB_PATH"), GetEnv("DB_PATH")), default_path)

\* tools/download_db.py: a key present in the secrets section is returned as
\* it is (also when empty); else a non-empty env var of the upper-cased name;
\* else the default
_get_secret(section, key, default) ==
    LET s == secrets[section \o "." \o key]
        e == env[Upper(key)]
    IN  IF s # Unset THEN s
        ELSE IF Truthy(e) THEN e
        ELSE default

\* pathlib.Path(p).expanduser().resolve(): "" is the working directory
PathResolve(p) == IF p = "" THEN CwdDir ELSE p

\* ensure_db's first four lines
EnsureDbPath ==
    LET p1 == _get_secret("db", "db_path", "olist.duckdb")
        p2 == GetOrDefault(GetEnv("DB_PATH"), p1)
    IN  PathResolve(p2)

\* the path connect_cached passes to _ensure_local_db
LocalPath == _resolve_db_path(DEFAULT_DUCKDB_PATH)

\* the files this process reads or writes
UsedPaths == {EnsureDbPath, LocalPath}

----------------------------------------------------------------------------
\* The disk and the network

Absent == -1
MinSize == 1024

Paths == {"olist.duckdb", "env.duckdb", "cfg.duckdb", "top.duckdb", "dl.duckdb"}

\* sizes a file on disk or a served body can have
SizeSamples == {50, 1024, 1025, 2048}
FileStates == {Absent} \cup SizeSamples

\* Path.exists()
Exists(f) == f # Absent

\* download_db.py: path.exists() and path.stat().st_size > 1024
IsPresent(f) == Exists(f) /\ f > MinSize

\* A release manifest is the "assets" list of the release JSON; id 0 and
\* url "" stand for a missing (falsy) field.
Asset(n, i, u) == [name |-> n, id |-> i, url |-> u]

Manifests ==
    { <<>>,
      <<Asset("other.db", 7, "https://dl/7"), Asset("olist.duckdb", 8, "https://dl/8")>>,
      <<Asset("olist.duckdb", 8, "https://dl/8"), Asset("olist.duckdb", 9, "https://dl/9")>>,
      <<Asset("olist.duckdb", 0, "")>> }

\* What the remote side answers to one ensure call: the manifest request
\* fails or returns an asset list; a byte transfer fails on its status, or
\* serves `size` bytes of which `written` reach the disk before the stream
\* ends (written < size: the stream broke).
ManifestReplies ==
    {[status |-> "error", assets |-> <<>>]} \cup
    {[status |-> "ok", assets |-> m] : m \in Manifests}
TransferReplies ==
    {[status |-> "error", size |-> 0, written |-> 0]} \cup
    {[status |-> "ok", size |-> s, written |-> s] : s \in SizeSamples} \cup
    {[status |-> "ok", size |-> 2048, written |-> w] : w \in {50, 1025}}

NetReplies ==
    [manifest : ManifestReplies, asset : TransferReplies, direct : TransferReplies]

\* the replies a script run or a query call is checked against: the release
\* is unreachable or serves the asset, the direct URL fails, serves a
\* 50-byte body or serves the database
DashReplies ==
    [manifest : {[status |-> "error", assets |-> <<>>],
                 [status |-> "ok",
                  assets |-> <<Asset("other.db", 7, "https://dl/7"),
                               Asset("olist.duckdb", 8, "https://dl/8")>>]},
     asset : {[status |-> "error", size |-> 0, written |-> 0],
              [status |-> "ok", size |-> 2048, written |-> 2048]},
     direct : {[status |-> "error", size |-> 0, written |-> 0],
               [status |-> "ok", size |-> 50, written |-> 50],
               [status |-> "ok", size |-> 2048, written |-> 2048]}]

DashFileStates == {Absent, 50, 2048}

\* the reply to a request that is never sent
NoReply == [status |-> "error", size |-> 0, written |-> 0]
NoReplies == [manifest |-> [status |-> "error", assets |-> <<>>],
              asset |-> NoReply, direct |-> NoReply]

\* resp.raise_for_status(); open(dst, "wb"); write the chunks
WriteStream(file, t) ==
    IF t.status = "error"
    THEN [raised |-> TRUE, file |-> file, wrote |-> "none"]
    ELSE [raised |-> t.written < t.size, file |-> t.written,
          wrote |-> IF t.written < t.size THEN "partial" ELSE "full"]

\* the release URL both modules build from the tag
ReleaseRequest(tag) ==
    IF tag = "latest" THEN "GET releases/latest" ELSE "GET releases/tags/{tag}"

ReleaseRequests == {"GET releases/latest", "GET releases/tags/{tag}",
                    "GET releases/assets/{id}", "GET browser_download_url"}
DirectRequests == {"GET DB_DOWNLOAD_URL"}

\* what a release strategy looked up in the manifest it was served: the
\* asset list, the name it looked for, and the locator it took (db.py: the
\* asset id, download_db.py: the browser_download_url)
Selection(target, assets, id, url) ==
    [target |-> target, assets |-> assets, id |-> id, url |-> url]

\* no manifest was read
NoSelection == Selection("", <<>>, 0, "")

\* the id of the first asset, whatever its name
AssetIdOfHead(assets, asset) == IF assets = <<>> THEN 0 ELSE Head(assets).id

\* db.py: the id of the first asset named `asset`, 0 (None) when there is none
RECURSIVE AssetId(_, _)
AssetId(assets, asset) ==
    IF assets = <<>> THEN 0
    ELSE IF Head(assets).name = asset THEN Head(assets).id
    ELSE AssetId(Tail(assets), asset)

\* download_db.py: browser_download_url of the first asset named
\* `asset_name`; "" when there is none or its url is empty
RECURSIVE AssetUrl(_, _)
AssetUrl(assets, asset_name) ==
    IF assets = <<>> THEN ""
    ELSE IF Head(assets).name = asset_name THEN Head(assets).url
    ELSE AssetUrl(Tail(assets), asset_name)

----------------------------------------------------------------------------
\* app/db.py: the two download strategies and _ensure_local_db

\* all([owner, repo, tag, asset, token])
ReleaseSecretsPresent ==
    /\ Truthy(SecretsGet("GH_OWNER"))
    /\ Truthy(SecretsGet("GH_REPO"))
    /\ Truthy(GetOrDefault(SecretsGet("GH_TAG"), "latest"))
    /\ Truthy(SecretsGet("GH_ASSET"))
    /\ Truthy(SecretsGet("GH_TOKEN"))

\* ret: "true" / "false" as returned, "raise" when an exception leaves it
\* (ensure_db also has "too-small": fetched, then rejected by the size check)
_download_from_github_release(file, n) ==
    LET tag == GetOrDefault(SecretsGet("GH_TAG"), "latest")
        asset == SecretsGet("GH_ASSET")
        rel == ReleaseRequest(tag)
        sel == Selection(asset, n.manifest.assets, AssetId(n.manifest.assets, asset), "")
    IN  IF ~ReleaseSecretsPresent
        THEN [ret |-> "false", net |-> <<>>, file |-> file, sel |-> NoSelection,
              wrote |-> "none"]
        ELSE IF n.manifest.status = "error"
        THEN [ret |-> "raise", net |-> <<rel>>, file |-> file, sel |-> NoSelection,
              wrote |-> "none"]
        ELSE IF AssetId(n.manifest.assets, asset) = 0
        THEN [ret |-> "raise", net |-> <<rel>>, file |-> file, sel |-> sel,
              wrote |-> "none"]
        ELSE LET w == WriteStream(file, n.asset)
             IN  [ret |-> IF w.raised THEN "raise" ELSE "true",
                  net |-> <<rel, "GET releases/assets/{id}">>,
                  file |-> w.file, sel |-> sel, wrote |-> w.wrote]

_download_from_direct_url(file, n) ==
    IF ~Truthy(SecretsGet("DB_DOWNLOAD_URL"))
    THEN [ret |-> "false", net |-> <<>>, file |-> file, wrote |-> "none"]
    ELSE LET w == WriteStream(file, n.direct)
         IN  [ret |-> IF w.raised THEN "raise" ELSE "true",
              net |-> <<"GET DB_DOWNLOAD_URL">>,
              file |-> w.file, wrote |-> w.wrote]

NoCall ==
    [fn |-> "none", path |-> "", before |-> Absent, after |-> Absent,
     seen |-> FALSE, acquire |-> FALSE, release |-> "not-called", direct |-> "not-called",
     net |-> <<>>, result |-> "none", warnings |-> 0, sel |-> NoSelection,
     wrote |-> "none"]

\* `if not ok: ok = _download_from_direct_url(db_path)` without its guard
DirectUrlAlways(r, n) == _download_from_direct_url(r.file, n)

\* if not ok: ok = _download_from_direct_url(db_path), after the release
\* strategy ended as r
DirectUrlIfNotOk(r, n) ==
    IF r.ret = "true"
    THEN [ret |-> "not-called", net |-> <<>>, file |-> r.file, wrote |-> "none"]
    ELSE _download_from_direct_url(r.file, n)

\* what _ensure_local_db did on the file f, its strategies having ended as
\* r (release) and d (direct URL)
EnsureLocalDbRecord(db_path, f, r, d) ==
    IF Exists(f)
    THEN [fn |-> "_ensure_local_db", path |-> db_path, before |-> f, after |-> f,
          seen |-> verified, acquire |-> FALSE, release |-> "not-called",
          direct |-> "not-called", net |-> <<>>, result |-> "ok", warnings |-> 0,
          sel |-> NoSelection, wrote |-> "none"]
    ELSE [fn |-> "_ensure_local_db", path |-> db_path, before |-> f,
          after |-> d.file, seen |-> verified, acquire |-> TRUE,
          release |-> r.ret, direct |-> d.ret,
          net |-> r.net \o d.net,
          result |-> IF r.ret = "true" \/ d.ret = "true" THEN "ok" ELSE "raise",
          warnings |-> (IF r.ret = "raise" THEN 1 ELSE 0)
                         + (IF d.ret = "raise" THEN 1 ELSE 0),
          sel |-> r.sel,
          wrote |-> IF d.wrote # "none" THEN d.wrote ELSE r.wrote]

EnsureLocalDbAfterRelease(db_path, f, r, n) ==
    EnsureLocalDbRecord(db_path, f, r, DirectUrlIfNotOk(r, n))

\* One invocation of _ensure_local_db(db_path) with the remote side's
\* replies n: the record of what it did and the file it leaves.
_ensure_local_db(db_path, n) ==
    EnsureLocalDbAfterRelease(db_path, fs[db_path],
                              _download_from_github_release(fs[db_path], n), n)

----------------------------------------------------------------------------
\* tools/download_db.py: ensure_db

GhOwner == PyOr(_get_secret("gh", "owner", Unset), "")
GhRepo == PyOr(_get_secret("gh", "repo", Unset), "")
GhTag == PyOr(_get_secret("gh", "tag", "latest"), "latest")
GhAsset == PyOr(_get_secret("gh", "asset", "olist.duckdb"), "olist.duckdb")
GhToken == _get_secret("gh", "token", Unset)

\* not (owner and repo and token) is false
GhSettingsPresent == Truthy(GhOwner) /\ Truthy(GhRepo) /\ Truthy(GhToken)

\* what ensure_db did on the file f at `path`: rel is the release request,
\* url the asset's download URL ("" when it was not resolved), w the outcome
\* of streaming it to disk
EnsureDbRecord(path, f, rel, url, w, sel) ==
    LET base == [fn |-> "ensure_db", path |-> path, before |-> f, after |-> f,
                 seen |-> verified, acquire |-> TRUE, release |-> "raise",
                 direct |-> "not-called", net |-> <<>>, result |-> "raise",
                 warnings |-> 0, sel |-> NoSelection, wrote |-> "none"]
        read == [base EXCEPT !.sel = sel]
        sent == [read EXCEPT !.net = <<rel, "GET browser_download_url">>,
                             !.after = w.file, !.wrote = w.wrote]
    IN  IF IsPresent(f)
        THEN [base EXCEPT !.acquire = FALSE, !.release = "not-called", !.result = "ok"]
        ELSE IF ~GhSettingsPresent
        THEN [base EXCEPT !.release = "false"]
        ELSE IF url = ""
        THEN [read EXCEPT !.net = <<rel>>]
        ELSE IF w.raised
        THEN sent
        ELSE IF w.file <= MinSize
        THEN [sent EXCEPT !.release = "too-small"]
        ELSE [sent EXCEPT !.release = "true", !.result = "ok"]

\* what _resolve_asset_url read and took; nothing when the manifest
\* request failed
UrlSelection(n, url) ==
    IF n.manifest.status = "error" THEN NoSelection
    ELSE Selection(GhAsset, n.manifest.assets, 0, url)

\* _resolve_asset_url: "" when the manifest request or the lookup fails
_resolve_asset_url(n) ==
    IF n.manifest.status = "error" THEN ""
    ELSE AssetUrl(n.manifest.assets, GhAsset)

EnsureDbOn(path, f, n) ==
    EnsureDbRecord(path, f, ReleaseRequest(GhTag), _resolve_asset_url(n),
                   WriteStream(f, n.asset), UrlSelection(n, _resolve_asset_url(n)))

\* One invocation of ensure_db() with the remote side's replies n. It has
\* the release strategy only; `direct` is never called.
ensure_db(n) == EnsureDbOn(EnsureDbPath, fs[EnsureDbPath], n)

----------------------------------------------------------------------------
\* app/db.py: connect_cached, run_sql_cached, run_sql

TTL == 300

NoHandle == [id |-> 0, open |-> FALSE]
NoEntry == [at |-> -1, val |-> "none"]

\* The SQL templates of app/ui.py
CohortCandidates ==
    <<"Q_COHORT_SIZE_MART_CUSTOMER", "Q_COHORT_SIZE_MART_COHORTS_SIZE",
      "Q_COHORT_SIZE_MART_COHORTS_NEW", "Q_COHORT_SIZE_FROM_LTV_DISTINCT",
      "Q_COHORT_SIZE_FROM_LTV_COL">>

RetentionCandidates == <<"Q_RETENTION_COL_RETENTION", "Q_RETENTION_COL_RATE">>

Range(q) == {q[i] : i \in 1..Len(q)}

Templates ==
    {"Q_KPI_TRAILING_180D", "Q_REV_ORDERS_180D", "Q_LTV_SUMMARY", "Q_LTV_MONTHLY",
     "Q_LTV_MONTH0", "Q_RETURNS_DAILY", "Q_RETURNS_MONTHLY", "Q_MARKETING_ROAS",
     "Q_MARKETING_SERIES"} \cup Range(CohortCandidates) \cup Range(RetentionCandidates)

\* st.cache_resource lookup of _connect(pth)
NoCachedConnection(pth) == NoHandle

CachedConnection(pth) == con[pth]

\* leaving the `with connect_cached(...)` block: finally: pass
ContextExit(h) == h

\* connect_cached after _ensure_local_db ended as ens: the cached handle is
\* yielded, or _connect opens the file and sets the time zone
ConnectAfterEnsure(p, ens, cached, open_ok) ==
    LET fresh == [id |-> Len(conLog) \div 2 + 1, open |-> TRUE]
        same == [ok |-> FALSE, ens |-> ens, con |-> con, conLog |-> conLog,
                 handed |-> handed]
    IN  IF ens.result = "raise" THEN same
        ELSE IF cached.id # 0
        THEN [same EXCEPT !.ok = TRUE,
                          !.con = [con EXCEPT ![p] = ContextExit(cached)],
                          !.handed = handed \cup {cached.id}]
        ELSE IF ~open_ok THEN same
        ELSE [same EXCEPT !.ok = TRUE,
                          !.con = [con EXCEPT ![p] = ContextExit(fresh)],
                          !.conLog = conLog \o <<"duckdb.connect", "SET timezone = 'UTC'">>,
                          !.handed = handed \cup {fresh.id}]

ConnectAt(p, n, open_ok) ==
    ConnectAfterEnsure(p, _ensure_local_db(p, n), CachedConnection(p), open_ok)

\* One connect_cached(db_path) with the remote side's replies n and the
\* engine accepting the file or not (open_ok). `ens` is the record of its
\* _ensure_local_db call.
connect_cached(db_path, n, open_ok) == ConnectAt(_resolve_db_path(db_path), n, open_ok)

\* the state one query call leaves, with its outcome `res`
Unchanged(res, hit) ==
    [res |-> res, hit |-> hit, call |-> call, fs |-> fs, verified |-> verified,
     con |-> con, conLog |-> conLog, handed |-> handed, cache |-> cache,
     qlog |-> qlog]

\* the state run_sql(sql) leaves once its connect_cached call ended as c:
\* execute and fetch on the handle, or the exception of connect_cached
AfterConnect(c, sql) ==
    [res |-> IF c.ok THEN db[sql] ELSE "raise", hit |-> FALSE, call |-> c.ens,
     fs |-> [fs EXCEPT ![c.ens.path] = c.ens.after],
     verified |-> (verified \/ c.ens.result = "ok"),
     con |-> c.con, conLog |-> c.conLog, handed |-> c.handed, cache |-> cache,
     qlog |-> qlog]

\* run_sql(sql): connect, execute, fetch; nothing is stored
run_sql(sql, n, open_ok) ==
    AfterConnect(connect_cached(DEFAULT_DUCKDB_PATH, n, open_ok), sql)

\* a stored entry that never expires
CacheHitNoTtl(sql) == cache[sql] # NoEntry

\* a stored entry is served while it is younger than the TTL
CacheHit(sql) == cache[sql] # NoEntry /\ now - cache[sql].at < TTL

\* the record of one run_sql_cached(sql) call
LastCall(sql, hit, res) == [sql |-> sql, hit |-> hit, res |-> res, at |-> now]

\* st.cache_data stores what the body returned; an exception stores nothing
Store(r, sql) ==
    IF r.res = "raise"
    THEN [r EXCEPT !.qlog = [qlog EXCEPT !.last = LastCall(sql, FALSE, r.res)]]
    ELSE [r EXCEPT !.cache = [cache EXCEPT ![sql] = [at |-> now, val |-> r.res]],
                   !.qlog = [execs |-> [qlog.execs EXCEPT ![sql] = Append(@, now)],
                             last |-> LastCall(sql, FALSE, r.res)]]

\* a call served from st.cache_data: the body does not run
Served(r, sql) == [r EXCEPT !.qlog = [qlog EXCEPT !.last = LastCall(sql, TRUE, r.res)]]

\* run_sql_cached(sql): the stored result if there is a fresh one; else the
\* body runs, and its result is stored unless it raised
run_sql_cached(sql, n, open_ok) ==
    IF CacheHit(sql) THEN Served(Unchanged(cache[sql].val, TRUE), sql)
    ELSE Store(run_sql(sql, n, open_ok), sql)

\* the replies and engine answers a query call can consume
QueryReplies(sql) ==
    IF CacheHit(sql) \/ Exists(fs[LocalPath]) THEN {NoReplies} ELSE DashReplies

OpenAnswers(sql) ==
    IF CacheHit(sql) \/ con[LocalPath].id # 0 THEN {TRUE} ELSE BOOLEAN

ConnectReplies == IF Exists(fs[LocalPath]) THEN {NoReplies} ELSE DashReplies

ConnectAnswers == IF con[LocalPath].id # 0 THEN {TRUE} ELSE BOOLEAN

Apply(r) ==
    /\ call' = r.call
    /\ fs' = r.fs
    /\ verified' = r.verified
    /\ con' = r.con
    /\ conLog' = r.conLog
    /\ handed' = r.handed
    /\ cache' = r.cache
    /\ qlog' = r.qlog

----------------------------------------------------------------------------
\* Specification of the resolvers over every configuration snapshot

EnvPathValues == {Unset, "", "env.duckdb"}
EnvSchemaValues == {Unset, "", "env_schema"}

UnsetEnv == [k \in EnvKeys |-> Unset]
UnsetSecrets == [k \in SecretKeys |-> Unset]

InitConn ==
    /\ con = [p \in Paths |-> NoHandle]
    /\ conLog = <<>>
    /\ handed = {}

NoQueries ==
    [execs |-> [t \in Templates |-> <<>>],
     last |-> [sql |-> "none", hit |-> FALSE, res |-> "none", at |-> 0]]

InitQuery ==
    /\ cache = [t \in Templates |-> NoEntry]
    /\ qlog = NoQueries
    /\ now = 0

AllRows == [t \in Templates |-> "rows"]

NoRun == [n |-> 0, status |-> "none", ensured |-> FALSE, errors |-> 0,
          queries |-> 0, opened |-> 0, failed |-> {}, cause |-> "none"]

NoRfa == [owner |-> "none", cands |-> <<>>, i |-> 1, tried |-> <<>>, outs |-> <<>>,
          ret |-> [kind |-> "none", of |-> ""]]

Slots == {"kpi_cards", "rev_orders", "cohort_size", "ltv", "retention",
          "returns_daily", "returns_monthly", "roas", "marketing_series"}

NothingShown == [c \in Slots |-> "none"]

InitUi ==
    /\ pc = "idle"
    /\ run = NoRun
    /\ shown = NothingShown
    /\ rfa = NoRfa

ResolvedNone ==
    [config_path |-> NotRun, config_schema |-> NotRun,
     local_default |-> NotRun, local |-> NotRun, ensure |-> NotRun]

InitConfig ==
    /\ \E ep \in EnvPathValues, es \in EnvSchemaValues :
           env = [UnsetEnv EXCEPT !["DB_PATH"] = ep, !["DB_SCHEMA"] = es]
    /\ \E a \in {Unset, "", "cfg.duckdb"}, b \in {Unset, "", "top.duckdb"},
          c \in {Unset, "", "dl.duckdb"}, d \in {Unset, "", "sec_schema"} :
           secrets = [UnsetSecrets EXCEPT !["db.path"] = a, !["DB_PATH"] = b,
                                          !["db.db_path"] = c, !["db.schema"] = d]
    /\ resolved = ResolvedNone
    /\ fs = [p \in Paths |-> Absent]
    /\ call = NoCall
    /\ verified = FALSE
    /\ InitConn /\ InitQuery /\ db = AllRows /\ InitUi

\* import app.config
ImportConfig ==
    /\ resolved.config_path = NotRun
    /\ resolved' = [resolved EXCEPT !.config_path = DEFAULT_DUCKDB_PATH,
                                    !.config_schema = DEFAULT_SCHEMA]
    /\ UNCHANGED <<cfgVars, diskVars, connVars, queryVars, uiVars>>

\* _resolve_db_path(d), as connect_cached calls it with config's default or
\* with another caller-chosen path
CallResolveDbPath ==
    /\ resolved.config_path # NotRun
    /\ resolved.local = NotRun
    /\ \E d \in {resolved.config_path, "arg.duckdb"} :
           resolved' = [resolved EXCEPT !.local_default = d,
                                        !.local = _resolve_db_path(d)]
    /\ UNCHANGED <<cfgVars, diskVars, connVars, queryVars, uiVars>>

\* the path ensure_db resolves
CallEnsureDbPath ==
    /\ resolved.ensure = NotRun
    /\ resolved' = [resolved EXCEPT !.ensure = EnsureDbPath]
    /\ UNCHANGED <<cfgVars, diskVars, connVars, queryVars, uiVars>>

NextConfig == ImportConfig \/ CallResolveDbPath \/ CallEnsureDbPath

\* highest-precedence non-empty layer: environment, then secrets, then default
HighestPrecedence(envValue, secretValue, default) ==
    IF Truthy(envValue) THEN envValue
    ELSE IF Truthy(secretValue) THEN secretValue
    ELSE default

\* C6: every resolver returns the non-empty value of the highest-precedence
\* layer (environment variable > platform-secrets value > default); no
\* resolver has a layer above the environment. Stated for config's path and
\* schema, _resolve_db_path and ensure_db.
C6_HighestPrecedenceWins ==
    /\ resolved.config_path # NotRun =>
          /\ resolved.config_path =
                 HighestPrecedence(env["DB_PATH"], secrets["db.path"], "olist.duckdb")
          /\ resolved.config_schema =
                 HighestPrecedence(env["DB_SCHEMA"], secrets["db.schema"], "analytics_marts")
    /\ resolved.local # NotRun =>
          resolved.local =
              HighestPrecedence(env["DB_PATH"], secrets["DB_PATH"], resolved.local_default)
    /\ resolved.ensure # NotRun =>
          resolved.ensure =
              HighestPrecedence(env["DB_PATH"], secrets["db.db_path"], "olist.duckdb")


----------------------------------------------------------------------------
\* Specification of the two ensure functions, called in any order on any
\* disk state with any replies of the remote side

InitDisk(states) ==
    /\ \E f \in [UsedPaths -> states] :
           fs = [p \in Paths |-> IF p \in UsedPaths THEN f[p] ELSE Absent]
    /\ call = NoCall
    /\ verified = FALSE

\* settings read by ensure_db (secrets section "gh", env OWNER as fallback)
GhSectionConfigs ==
    { [UnsetSecrets EXCEPT !["gh.owner"] = o, !["gh.repo"] = r,
                           !["gh.token"] = t, !["gh.tag"] = g] :
        o \in {Unset, "", "acme"}, r \in {Unset, "olist"},
        t \in {Unset, "tok"}, g \in {Unset, "v1"} }

\* settings read by app/db.py (top-level secrets)
TopLevelConfigs ==
    { [UnsetSecrets EXCEPT !["GH_OWNER"] = o, !["GH_REPO"] = r, !["GH_TAG"] = g,
                           !["GH_ASSET"] = a, !["GH_TOKEN"] = t,
                           !["DB_DOWNLOAD_URL"] = u] :
        o \in {Unset, "acme"}, r \in {Unset, "olist"}, g \in {Unset, "", "v1"},
        a \in {Unset, "olist.duckdb"}, t \in {Unset, "tok"},
        u \in {Unset, "", "https://bucket/olist.duckdb"} }

\* a deployment that sets both groups, or the "gh" section and the direct URL
FullConfigs ==
    { [UnsetSecrets EXCEPT !["gh.owner"] = "acme", !["gh.repo"] = "olist",
                           !["gh.token"] = "tok",
                           !["GH_OWNER"] = o, !["GH_REPO"] = o, !["GH_ASSET"] = o,
                           !["GH_TOKEN"] = o,
                           !["DB_DOWNLOAD_URL"] = "https://bucket/olist.duckdb"] :
        o \in {Unset, "olist.duckdb"} }

InitEnsure ==
    /\ InitConn /\ InitQuery /\ db = AllRows /\ InitUi
    /\ \/ /\ \E o \in {Unset, "acme"} : env = [UnsetEnv EXCEPT !["OWNER"] = o]
          /\ secrets \in GhSectionConfigs
       \/ /\ env = UnsetEnv
          /\ secrets \in TopLevelConfigs \cup FullConfigs
    /\ resolved = ResolvedNone
    /\ InitDisk(FileStates)

\* The replies an invocation can consume: none when it sends no request
\* (the file passes its presence check); ensure_db never uses the direct URL.
EnsureDbReplies ==
    IF IsPresent(fs[EnsureDbPath]) THEN {NoReplies}
    ELSE {n \in NetReplies : n.direct = NoReply}

EnsureLocalDbReplies ==
    IF Exists(fs[LocalPath]) THEN {NoReplies} ELSE NetReplies

Record(c) ==
    /\ call' = c
    /\ fs' = [fs EXCEPT ![c.path] = c.after]
    /\ verified' = (verified \/ c.result = "ok")

\* olist_dashboard.py / __main__: ensure_db()
CallEnsureDb ==
    /\ \E n \in EnsureDbReplies : Record(ensure_db(n))
    /\ UNCHANGED <<cfgVars, resolved, connVars, queryVars, uiVars>>

\* connect_cached: _ensure_local_db(_resolve_db_path(db_path))
CallEnsureLocalDb ==
    /\ \E n \in EnsureLocalDbReplies : Record(_ensure_local_db(LocalPath, n))
    /\ UNCHANGED <<cfgVars, resolved, connVars, queryVars, uiVars>>

\* another process deletes, truncates or replaces a file the program uses
ExternalChange ==
    /\ \E p \in UsedPaths, f \in FileStates :
           /\ fs[p] # f
           /\ fs' = [fs EXCEPT ![p] = f]
    /\ UNCHANGED <<cfgVars, resolved, call, verified, connVars, queryVars, uiVars>>

NextEnsure == CallEnsureDb \/ CallEnsureLocalDb \/ ExternalChange

----------------------------------------------------------------------------
\* Claims about one ensure invocation (checked on `call`, the record of the
\* most recent one)

Called == call.fn # "none"

Requested(reqs) == \E i \in 1..Len(call.net) : call.net[i] \in reqs

\* a strategy's fetch ran to the end of the byte transfer
Fetched == call.release \in {"true", "too-small"} \/ call.direct = "true"

\* a strategy fetched the file and ensure accepted the fetch
StrategySucceeded == call.release = "true" \/ call.direct = "true"

\* C2: an ensure call skips acquisition, with no network request, exactly
\* when the file exists with more than 1024 bytes at its path: a present
\* file means no request, and a file that is absent or at most 1024 bytes
\* means acquisition is attempted.
C2_NoNetworkIffPresent ==
    Called =>
        /\ IsPresent(call.before) => (call.net = <<>> /\ ~call.acquire)
        /\ ~IsPresent(call.before) => call.acquire

\* the raw settings each function's release strategy needs
ReleaseSettingsOf(fn) ==
    IF fn = "_ensure_local_db"
    THEN /\ \A k \in {"GH_OWNER", "GH_REPO", "GH_ASSET", "GH_TOKEN"} :
                secrets[k] \notin {Unset, ""}
         /\ secrets["GH_TAG"] # ""
    ELSE /\ secrets["gh.owner"] \notin {Unset, ""} \/
                (secrets["gh.owner"] = Unset /\ env["OWNER"] \notin {Unset, ""})
         /\ secrets["gh.repo"] \notin {Unset, ""} \/
                (secrets["gh.repo"] = Unset /\ env["REPO"] \notin {Unset, ""})
         /\ secrets["gh.token"] \notin {Unset, ""} \/
                (secrets["gh.token"] = Unset /\ env["TOKEN"] \notin {Unset, ""})

\* C3: on a file that is not present, requests of the release strategy come
\* before any request of the direct-URL strategy; a strategy's request is
\* sent only if all of its settings are present; and no direct-URL request
\* is sent once the release strategy has succeeded.
C3_ReleaseBeforeDirect ==
    Called =>
        /\ call.net # <<>> => call.acquire
        /\ Requested(ReleaseRequests) => ReleaseSettingsOf(call.fn)
        /\ Requested(DirectRequests) => secrets["DB_DOWNLOAD_URL"] \notin {Unset, ""}
        /\ \A i, j \in 1..Len(call.net) :
               (call.net[i] \in DirectRequests /\ call.net[j] \in ReleaseRequests)
                   => j < i
        /\ call.release = "true" => ~Requested(DirectRequests)

\* the release strategy failed and the direct URL was then requested
C3_Witness ==
    /\ call.fn = "_ensure_local_db"
    /\ call.release = "raise"
    /\ call.net = <<"GET releases/latest", "GET DB_DOWNLOAD_URL">>

\* C4: in an ensure call on a file that is not present, no strategy is
\* attempted twice, a failed release attempt is followed by the direct-URL
\* attempt when the URL is configured, and the call raises exactly when no
\* strategy succeeded.
C4_FailedStrategyFallsThrough ==
    (Called /\ call.acquire) =>
        /\ \A i, j \in 1..Len(call.net) : call.net[i] = call.net[j] => i = j
        /\ (call.release = "raise" /\ secrets["DB_DOWNLOAD_URL"] \notin {Unset, ""})
               => Requested(DirectRequests)
        /\ call.result = "raise" <=> ~StrategySucceeded

\* C5: a fetch that ran to the end is re-validated by the presence check, and
\* the call raises when the check fails; no ensure call returns normally
\* leaving a file that is absent or at most 1024 bytes.
C5_RevalidatedAfterFetch ==
    Called =>
        /\ (Fetched /\ ~IsPresent(call.after)) => call.result = "raise"
        /\ call.result = "ok" => IsPresent(call.after)

----------------------------------------------------------------------------
\* app/ui.py: run_first_available and the tab renderers;
\* olist_dashboard.py: the script

MaxRuns == 1
MaxTicks == 1
MaxCands == 4

\* run_first_available's handling of one run_sql_cached(s) outcome:
\* a non-empty frame is returned, anything else (also an exception) goes on
RfaOnResultNoExcept(res) ==
    IF res = "raise" THEN "propagate"
    ELSE IF res = "empty" THEN "continue" ELSE "return"

RfaOnResult(res) ==
    IF res = "raise" THEN "continue"
    ELSE IF res = "empty" THEN "continue" ELSE "return"

\* a render_* function's handling of its own run_sql_cached(...) outcome:
\* no try/except, so an exception leaves the function
OnQueryResult(res) == IF res = "raise" THEN "propagate" ELSE "render"

Ret(kind, of) == [kind |-> kind, of |-> of]

FreshRfa(owner, cands) ==
    [owner |-> owner, cands |-> cands, i |-> 1, tried |-> <<>>, outs |-> <<>>,
     ret |-> Ret("pending", "")]

\* the invocation in progress for this caller, or a new one
CurrentRfa(owner, cands) ==
    IF rfa.owner = owner /\ rfa.ret.kind = "pending" THEN rfa ELSE FreshRfa(owner, cands)

\* one iteration of the for loop, given the outcome of run_sql_cached(s)
RfaIterate(cur, res) ==
    LET s == cur.cands[cur.i]
        d == RfaOnResult(res)
    IN  [cur EXCEPT !.tried = Append(@, s),
                    !.outs = Append(@, res),
                    !.i = @ + 1,
                    !.ret = IF d = "return" THEN Ret("frame", s)
                            ELSE IF d = "propagate" THEN Ret("raised", s)
                            ELSE IF cur.i = Len(cur.cands) THEN Ret("empty", "")
                            ELSE Ret("pending", "")]

\* bookkeeping of the run: a run_sql_cached call was made with outcome r
Ran(r, sql) ==
    [run EXCEPT !.queries = @ + 1,
                !.opened = @ + (IF r.conLog # conLog THEN 1 ELSE 0),
                !.failed = IF r.res = "raise" THEN @ \cup {sql} ELSE @]

Ended(rn, next) == IF next = "idle" THEN [rn EXCEPT !.status = "done"] ELSE rn

Crashed(rn, cause) == [rn EXCEPT !.status = "exception", !.cause = cause]

\* st.stop() after a failed ensure_db: the script goes no further
AfterEnsureNoStop(ok) == "ov_kpi"

AfterEnsure(ok) == IF ok THEN "ov_kpi" ELSE "idle"

ScriptReplies ==
    IF IsPresent(fs[EnsureDbPath]) THEN {NoReplies}
    ELSE {n \in DashReplies : n.direct = NoReply}

\* another process deletes or truncates a file the program uses
ExternalDamage ==
    /\ \E p \in UsedPaths, f \in {Absent, 50} :
           /\ fs[p] # f
           /\ fs' = [fs EXCEPT ![p] = f]
    /\ UNCHANGED <<cfgVars, resolved, call, verified, connVars, queryVars, uiVars>>

\* olist_dashboard.py: set_page_config, ensure_db in try/except, ui.render()
\* up to the first query
ScriptStart ==
    /\ pc = "idle"
    /\ run.n < MaxRuns
    /\ \E n \in ScriptReplies : \E c \in {ensure_db(n)} :
           LET ok == c.result = "ok"
           IN  /\ Record(c)
               /\ run' = [NoRun EXCEPT !.n = run.n + 1,
                                       !.status = IF ok THEN "running" ELSE "stopped",
                                       !.ensured = ok,
                                       !.errors = IF ok THEN 0 ELSE 1]
               /\ pc' = AfterEnsure(ok)
    /\ shown' = NothingShown
    /\ rfa' = NoRfa
    /\ UNCHANGED <<cfgVars, resolved, connVars, queryVars>>

\* A block of a render_* function that runs one query and draws one chart
\* (or st.info when the frame is empty)
ChartBlock(at, sql, slot, next) ==
    /\ pc = at
    /\ \E n \in QueryReplies(sql), o \in OpenAnswers(sql) :
           \E r \in {run_sql_cached(sql, n, o)} :
               /\ Apply(r)
               /\ IF OnQueryResult(r.res) = "propagate"
                  THEN /\ pc' = "idle"
                       /\ run' = Crashed(Ran(r, sql), "query")
                       /\ shown' = shown
                  ELSE /\ pc' = next
                       /\ run' = Ended(Ran(r, sql), next)
                       /\ shown' = [shown EXCEPT ![slot] =
                                        IF r.res = "empty" THEN "info" ELSE "chart"]
    /\ UNCHANGED <<cfgVars, resolved, now, db, rfa>>

\* A block that calls run_first_available(cands) and draws one chart; each
\* step is one iteration of its loop
FallbackBlock(at, cands, slot, next) ==
    /\ pc = at
    /\ \E cur \in {CurrentRfa(at, cands)} : \E sql \in {cur.cands[cur.i]} :
           \E n \in QueryReplies(sql), o \in OpenAnswers(sql) :
               \E r \in {run_sql_cached(sql, n, o)} :
               \E nxt \in {RfaIterate(cur, r.res)} :
                   /\ Apply(r)
                   /\ rfa' = nxt
                   /\ CASE nxt.ret.kind = "pending" ->
                               /\ pc' = pc
                               /\ run' = Ran(r, sql)
                               /\ shown' = shown
                        [] nxt.ret.kind = "raised" ->
                               /\ pc' = "idle"
                               /\ run' = Crashed(Ran(r, sql), "query")
                               /\ shown' = shown
                        [] OTHER ->
                               /\ pc' = next
                               /\ run' = Ended(Ran(r, sql), next)
                               /\ shown' = [shown EXCEPT ![slot] =
                                                IF nxt.ret.kind = "frame"
                                                THEN "chart" ELSE "info"]
    /\ UNCHANGED <<cfgVars, resolved, now, db>>

\* render_overview: the KPI cards; .iloc[0] of an empty frame is an IndexError
RenderKpi ==
    /\ pc = "ov_kpi"
    /\ \E n \in QueryReplies("Q_KPI_TRAILING_180D"),
          o \in OpenAnswers("Q_KPI_TRAILING_180D") :
           \E r \in {run_sql_cached("Q_KPI_TRAILING_180D", n, o)} :
           \E rn \in {Ran(r, "Q_KPI_TRAILING_180D")} :
               /\ Apply(r)
               /\ IF OnQueryResult(r.res) = "propagate"
                  THEN pc' = "idle" /\ run' = Crashed(rn, "query") /\ shown' = shown
                  ELSE IF r.res = "empty"
                  THEN pc' = "idle" /\ run' = Crashed(rn, "data") /\ shown' = shown
                  ELSE /\ pc' = "ov_series"
                       /\ run' = rn
                       /\ shown' = [shown EXCEPT !["kpi_cards"] = "chart"]
    /\ UNCHANGED <<cfgVars, resolved, now, db, rfa>>

RenderRevOrders ==
    ChartBlock("ov_series", "Q_REV_ORDERS_180D", "rev_orders", "co_size")

RenderCohortSize ==
    FallbackBlock("co_size", CohortCandidates, "cohort_size", "co_ltv_summary")

\* render_cohorts: max_m from Q_LTV_SUMMARY picks the LTV chart; int() of a
\* NULL max_m is a ValueError
RenderLtvSummary ==
    /\ pc = "co_ltv_summary"
    /\ \E n \in QueryReplies("Q_LTV_SUMMARY"), o \in OpenAnswers("Q_LTV_SUMMARY") :
           \E r \in {run_sql_cached("Q_LTV_SUMMARY", n, o)} :
           \E rn \in {Ran(r, "Q_LTV_SUMMARY")} :
               /\ Apply(r)
               /\ IF OnQueryResult(r.res) = "propagate"
                  THEN pc' = "idle" /\ run' = Crashed(rn, "query")
                  ELSE IF r.res = "rows_null"
                  THEN pc' = "idle" /\ run' = Crashed(rn, "data")
                  ELSE /\ pc' = IF r.res = "rows" THEN "co_ltv_monthly" ELSE "co_ltv_month0"
                       /\ run' = rn
    /\ UNCHANGED <<cfgVars, resolved, now, db, rfa, shown>>

RenderLtvMonthly ==
    ChartBlock("co_ltv_monthly", "Q_LTV_MONTHLY", "ltv", "co_retention")

RenderLtvMonth0 ==
    ChartBlock("co_ltv_month0", "Q_LTV_MONTH0", "ltv", "co_retention")

RenderRetention ==
    FallbackBlock("co_retention", RetentionCandidates, "retention", "rr_daily")

RenderReturnsDaily ==
    ChartBlock("rr_daily", "Q_RETURNS_DAILY", "returns_daily", "rr_monthly")

RenderReturnsMonthly ==
    ChartBlock("rr_monthly", "Q_RETURNS_MONTHLY", "returns_monthly", "mk_roas")

RenderRoas ==
    ChartBlock("mk_roas", "Q_MARKETING_ROAS", "roas", "mk_series")

RenderMarketingSeries ==
    ChartBlock("mk_series", "Q_MARKETING_SERIES", "marketing_series", "idle")

\* TTL seconds pass
Tick ==
    /\ now < MaxTicks * TTL
    /\ now' = now + TTL
    /\ UNCHANGED <<cfgVars, resolved, diskVars, connVars, cache, qlog, db, uiVars>>

\* what a query can answer instead of rows
Deviations(t) ==
    IF t = "Q_LTV_SUMMARY" THEN {"raise", "empty", "rows_m0", "rows_null"}
    ELSE {"raise", "empty"}

\* databases in which every template answers with rows, or all but one do
DbStates ==
    {AllRows} \cup
    UNION { {[AllRows EXCEPT ![t] = o] : o \in Deviations(t)} : t \in Templates }

\* deployments: nothing configured, or every download setting configured
DashConfigs ==
    {UnsetSecrets,
     [UnsetSecrets EXCEPT !["gh.owner"] = "acme", !["gh.repo"] = "olist",
                          !["gh.token"] = "tok",
                          !["GH_OWNER"] = "acme", !["GH_REPO"] = "olist",
                          !["GH_ASSET"] = "olist.duckdb", !["GH_TOKEN"] = "tok",
                          !["DB_DOWNLOAD_URL"] = "https://bucket/olist.duckdb"]}

\* the templates the callers of SpecDb query
ApiTemplates == {"Q_KPI_TRAILING_180D", "Q_REV_ORDERS_180D"}

ApiDbStates == {d \in DbStates : \A t \in Templates \ ApiTemplates : d[t] = "rows"}

InitApi ==
    /\ env = UnsetEnv
    /\ secrets \in DashConfigs
    /\ resolved = ResolvedNone
    /\ InitDisk(DashFileStates)
    /\ InitConn
    /\ InitQuery
    /\ db \in ApiDbStates
    /\ InitUi

CallRunSql ==
    /\ \E sql \in ApiTemplates, n \in ConnectReplies, o \in ConnectAnswers :
           Apply(run_sql(sql, n, o))
    /\ UNCHANGED <<cfgVars, resolved, now, db, uiVars>>

CallRunSqlCached ==
    /\ \E sql \in ApiTemplates :
           \E n \in QueryReplies(sql), o \in OpenAnswers(sql) :
               Apply(run_sql_cached(sql, n, o))
    /\ UNCHANGED <<cfgVars, resolved, now, db, uiVars>>

\* the tables are reloaded: a template answers differently from now on
DataChange ==
    /\ \E d \in ApiDbStates : d # db /\ db' = d
    /\ UNCHANGED <<cfgVars, resolved, diskVars, connVars, cache, qlog, now, uiVars>>

NextApi ==
    \/ CallRunSql
    \/ CallRunSqlCached
    \/ DataChange
    \/ ExternalDamage
    \/ Tick

\* run_first_available called on a prefix of the cohort candidates, over
\* every assignment of outcomes to them
InitResolver ==
    /\ env = UnsetEnv
    /\ secrets = UnsetSecrets
    /\ resolved = ResolvedNone
    /\ fs = [p \in Paths |-> IF p \in UsedPaths THEN 2048 ELSE Absent]
    /\ call = NoCall
    /\ verified = FALSE
    /\ InitConn
    /\ InitQuery
    /\ \E o \in [1..MaxCands -> {"raise", "empty", "rows"}] :
           db = [t \in Templates |->
                    IF \E i \in 1..MaxCands : CohortCandidates[i] = t
                    THEN o[CHOOSE i \in 1..MaxCands : CohortCandidates[i] = t]
                    ELSE "rows"]
    /\ pc = "resolve"
    /\ run = NoRun
    /\ shown = NothingShown
    /\ \E k \in 0..MaxCands :
           rfa = FreshRfa("resolve", SubSeq(CohortCandidates, 1, k))

\* one iteration of run_first_available(sql_candidates), or its return on
\* an empty list
ResolveFirst ==
    /\ pc = "resolve"
    /\ rfa.ret.kind = "pending"
    /\ IF rfa.cands = <<>>
       THEN /\ rfa' = [rfa EXCEPT !.ret = Ret("empty", "")]
            /\ UNCHANGED <<diskVars, connVars, cache, qlog>>
       ELSE \E n \in QueryReplies(rfa.cands[rfa.i]),
               o \in OpenAnswers(rfa.cands[rfa.i]) :
                \E r \in {run_sql_cached(rfa.cands[rfa.i], n, o)} :
                    Apply(r) /\ rfa' = RfaIterate(rfa, r.res)
    /\ UNCHANGED <<cfgVars, resolved, now, db, pc, run, shown>>

NextResolver == ResolveFirst

Init ==
    /\ env = UnsetEnv
    /\ secrets \in DashConfigs
    /\ resolved = ResolvedNone
    /\ InitDisk(DashFileStates)
    /\ InitConn
    /\ InitQuery
    /\ db \in DbStates
    /\ InitUi

Next ==
    \/ ScriptStart
    \/ RenderKpi
    \/ RenderRevOrders
    \/ RenderCohortSize
    \/ RenderLtvSummary
    \/ RenderLtvMonthly
    \/ RenderLtvMonth0
    \/ RenderRetention
    \/ RenderReturnsDaily
    \/ RenderReturnsMonthly
    \/ RenderRoas
    \/ RenderMarketingSeries
    \/ ExternalDamage

----------------------------------------------------------------------------
\* Claims about run_first_available, the connection and the script

\* C1: run_first_available executes the candidates in list order; an
\* exception and an empty frame both mean "try the next one"; it returns the
\* frame of the first candidate that gives rows and executes nothing after
\* it; it returns an empty frame, and never raises, when no candidate gives
\* rows.
C1_FirstAvailableInOrder ==
    /\ rfa.tried = SubSeq(rfa.cands, 1, Len(rfa.tried))
    /\ Len(rfa.outs) = Len(rfa.tried)
    /\ \A t \in Templates : cache[t] # NoEntry => t \in Range(rfa.tried)
    /\ \A i \in 1..Len(rfa.outs) : i < Len(rfa.outs) => rfa.outs[i] \in {"raise", "empty"}
    /\ rfa.ret.kind \in {"pending", "frame", "empty"}
    /\ rfa.ret.kind = "pending" =>
           /\ Len(rfa.tried) < Len(rfa.cands) \/ rfa.cands = <<>>
           /\ \A i \in 1..Len(rfa.outs) : rfa.outs[i] \in {"raise", "empty"}
    /\ rfa.ret.kind = "frame" =>
           /\ rfa.outs # <<>>
           /\ rfa.outs[Len(rfa.outs)] = "rows"
           /\ rfa.ret.of = rfa.tried[Len(rfa.tried)]
    /\ rfa.ret.kind = "empty" =>
           /\ rfa.tried = rfa.cands
           /\ \A i \in 1..Len(rfa.outs) : rfa.outs[i] \in {"raise", "empty"}

\* T1 raises, T2 is empty, T3 gives rows and is returned; T4 is not executed
C1_Witness ==
    /\ Len(rfa.cands) = 4
    /\ rfa.outs = <<"raise", "empty", "rows">>
    /\ rfa.ret = Ret("frame", rfa.cands[3])

\* C7: over any sequence of run_sql / run_sql_cached calls (each one a
\* connect_cached call) the database is opened at most once, the UTC setting
\* is executed once, right after the opening; every call yields the same
\* handle and the handle stays open.
C7_OpenedOnce ==
    /\ conLog \in {<<>>, <<"duckdb.connect", "SET timezone = 'UTC'">>}
    /\ Cardinality(handed) <= 1
    /\ handed # {} => conLog # <<>>
    /\ \A p \in Paths :
           con[p].id # 0 => (con[p].open /\ handed = {con[p].id} /\ p = LocalPath)

\* the database was opened, and two query bodies ran TTL seconds apart
C7_Witness ==
    /\ conLog # <<>>
    /\ handed # {}
    /\ cache["Q_KPI_TRAILING_180D"].at = 0
    /\ cache["Q_REV_ORDERS_180D"].at = TTL

\* C8: once an ensure call of this process has verified the file, no later
\* call attempts acquisition, also when the file was deleted or truncated
\* in between.
C8_NoReacquisition == ~(call.acquire /\ call.seen)

\* C9: in every run a query is executed or a chart drawn only after
\* ensure_db returned normally in that run; when it raised, one error is
\* shown and the run halts before ui.render and before a connection is
\* opened.
C9_AcquireBeforeRender ==
    /\ (pc # "idle" \/ run.queries > 0 \/ shown # NothingShown) => run.ensured
    /\ run.status = "stopped" =>
           /\ ~run.ensured
           /\ run.errors = 1
           /\ pc = "idle"
           /\ shown = NothingShown
           /\ run.queries = 0
           /\ run.opened = 0
    /\ run.status \in {"running", "done", "exception"} => (run.ensured /\ run.errors = 0)

\* a run whose ensure_db call raised
C9_Witness ==
    /\ run.status = "stopped"
    /\ run.errors = 1
    /\ call.fn = "ensure_db"
    /\ call.result = "raise"

\* C10: a run in which a query raised still ends with every chart slot
\* drawn (the failed one as a placeholder); no query failure aborts the run.
C10_QueryFailureConfined ==
    (run.failed # {} /\ pc = "idle") =>
        /\ run.status = "done"
        /\ \A c \in Slots : shown[c] # "none"

----------------------------------------------------------------------------
\* Specification of the asset lookup: each release strategy is run once on
\* an absent file, with every manifest of at most MaxAssets assets

MaxAssets == 2

AssetNames == {"a.db", "b.db", "b.db.gz"}
Targets == {"b.db", "c.db"}

\* an asset with either locator, or with its locator fields missing
AssetPool ==
    {Asset(nm, 7, "https://dl/7") : nm \in AssetNames} \cup
    {Asset(nm, 8, "https://dl/8") : nm \in AssetNames} \cup
    {Asset(nm, 0, "") : nm \in AssetNames}

BoundedManifests == UNION {[1..k -> AssetPool] : k \in 0..MaxAssets}

\* the release replies: the manifest request succeeds; the byte transfer, if
\* it is started, fails or serves the database
ManifestCases ==
    {[manifest |-> [status |-> "ok", assets |-> m], asset |-> a, direct |-> NoReply] :
        m \in BoundedManifests,
        a \in {NoReply, [status |-> "ok", size |-> 2048, written |-> 2048]}}

InitManifest ==
    /\ env = UnsetEnv
    /\ \E t \in Targets :
           secrets = [UnsetSecrets EXCEPT
                         !["gh.owner"] = "acme", !["gh.repo"] = "olist",
                         !["gh.token"] = "tok", !["gh.asset"] = t,
                         !["GH_OWNER"] = "acme", !["GH_REPO"] = "olist",
                         !["GH_TOKEN"] = "tok", !["GH_ASSET"] = t]
    /\ resolved = ResolvedNone
    /\ fs = [p \in Paths |-> Absent]
    /\ call = NoCall
    /\ verified = FALSE
    /\ InitConn /\ InitQuery /\ db = AllRows /\ InitUi

\* app/db.py: _download_from_github_release inside _ensure_local_db
LookupAssetId ==
    /\ call = NoCall
    /\ \E n \in ManifestCases : Record(_ensure_local_db(LocalPath, n))
    /\ UNCHANGED <<cfgVars, resolved, connVars, queryVars, uiVars>>

\* tools/download_db.py: _resolve_asset_url inside ensure_db
LookupAssetUrl ==
    /\ call = NoCall
    /\ \E n \in ManifestCases : Record(ensure_db(n))
    /\ UNCHANGED <<cfgVars, resolved, connVars, queryVars, uiVars>>

NextManifest == LookupAssetId \/ LookupAssetUrl

\* the positions of the manifest's assets that carry the target name
Matches(sel) == {i \in 1..Len(sel.assets) : sel.assets[i].name = sel.target}

FirstMatch(sel) == CHOOSE k \in Matches(sel) : \A j \in Matches(sel) : k <= j

\* the locator field the function reads (0 and "" stand for a missing one)
LocatorOf(fn, a) == IF fn = "ensure_db" THEN a.url # "" ELSE a.id # 0

\* the requests that start the byte transfer of the release asset
TransferRequests == {"GET releases/assets/{id}", "GET browser_download_url"}

\* C12: a release strategy that read a manifest takes the locator of the
\* (first) asset whose name equals the target exactly and starts the byte
\* transfer with it; when no asset has that name it fails as not found with
\* no byte transfer started and the destination untouched.
C12_ExactNameSelected ==
    (Called /\ call.sel # NoSelection) =>
        /\ Matches(call.sel) = {} =>
               /\ call.release = "raise"
               /\ ~Requested(TransferRequests)
               /\ ~Requested(DirectRequests) => call.after = call.before
               /\ call.sel.id = 0 /\ call.sel.url = ""
        /\ Matches(call.sel) # {} =>
               /\ call.sel.id = IF call.fn = "ensure_db" THEN 0
                                ELSE call.sel.assets[FirstMatch(call.sel)].id
               /\ call.sel.url = IF call.fn = "ensure_db"
                                 THEN call.sel.assets[FirstMatch(call.sel)].url ELSE ""
               /\ Requested(TransferRequests)
                      <=> LocatorOf(call.fn, call.sel.assets[FirstMatch(call.sel)])

\* assets [a.db, b.db] and target b.db: the second asset's id is taken and
\* the transfer succeeds
C12_Witness ==
    /\ call.fn = "_ensure_local_db"
    /\ call.sel.target = "b.db"
    /\ call.sel.assets = <<Asset("a.db", 7, "https://dl/7"), Asset("b.db", 8, "https://dl/8")>>
    /\ call.sel.id = 8
    /\ call.release = "true"

\* the most recent ensure call left a partly written file at its path, and
\* the file is still as that call left it
PartialFileLeft ==
    /\ call.wrote = "partial"
    /\ fs[call.path] = call.after

\* C13: a transfer that broke after writing part of the asset never leaves a
\* file that a later ensure call accepts as present: the next ensure call on
\* that path attempts acquisition again.
C13_PartialFetchNotAccepted ==
    [][(PartialFileLeft /\ call' # call /\ call'.path = call.path) => call'.acquire]_vars

\* C14: for every configuration, the path ensure_db validates or downloads
\* to is the path connect_cached ensures and opens
\* (_resolve_db_path(config.DEFAULT_DUCKDB_PATH)).
C14_SamePath ==
    (/\ resolved.ensure # NotRun
     /\ resolved.local # NotRun
     /\ resolved.local_default = resolved.config_path)
        => resolved.local = resolved.ensure

\* C11: two run_sql_cached calls of one template less than TTL seconds
\* after the stored execution run the query once and return the stored
\* result (also when the tables changed since); a call made once TTL seconds
\* have passed since the stored execution runs the body again.
C11_MemoizedWithinTtl ==
    /\ \A t \in Templates :
           /\ \A i, j \in 1..Len(qlog.execs[t]) :
                  i < j => qlog.execs[t][j] - qlog.execs[t][i] >= TTL
           /\ cache[t] # NoEntry =>
                  /\ qlog.execs[t] # <<>>
                  /\ cache[t].at = qlog.execs[t][Len(qlog.execs[t])]
           /\ cache[t] = NoEntry => qlog.execs[t] = <<>>
    /\ qlog.last.hit =>
           /\ qlog.last.res = cache[qlog.last.sql].val
           /\ qlog.last.at - cache[qlog.last.sql].at < TTL
           /\ qlog.last.at >= cache[qlog.last.sql].at
    /\ (qlog.last.sql # "none" /\ ~qlog.last.hit /\ qlog.last.res # "raise") =>
           \E i \in 1..Len(qlog.execs[qlog.last.sql]) :
               qlog.execs[qlog.last.sql][i] = qlog.last.at

\* the query ran at 0 and again at TTL, and the last call was served the
\* stored result although the tables now answer differently
C11_Witness ==
    /\ qlog.execs["Q_KPI_TRAILING_180D"] = <<0, TTL>>
    /\ qlog.last = [sql |-> "Q_KPI_TRAILING_180D", hit |-> TRUE, res |-> "rows", at |-> TTL]
    /\ db["Q_KPI_TRAILING_180D"] = "empty"

Spec == Init /\ [][Next]_vars
SpecDb == InitApi /\ [][NextApi]_vars
SpecResolver == InitResolver /\ [][NextResolver]_vars
SpecConfig == InitConfig /\ [][NextConfig]_vars
SpecEnsure == InitEnsure /\ [][NextEnsure]_vars
SpecManifest == InitManifest /\ [][NextManifest]_vars

====
